---- MODULE Spec2Model ----
(***************************************************************************)
(* Weather report by city (main.py): get_weather resolves a city name to   *)
(* coordinates with one geocoding request, asks the forecast service for   *)
(* the current conditions at those coordinates, and prints a report or an  *)
(* error line.  get_weather_description maps a weather code to text.       *)
(*                                                                         *)
(* Text is a sequence of pieces: the literal parts of an f-string are one  *)
(* piece each, a city name is one piece per character.  A JSON value is a  *)
(* record with a "kind" field; a JSON object's members are a function from *)
(* its keys.                                                               *)
(***************************************************************************)
EXTENDS Integers, Sequences, FiniteSets, TLC

\* ------------------------------------------------------------------ bounds

\* Longest city name typed in, in characters.
MaxCityLen == 3
\* Most candidates in a geocoding result.
MaxCandidates == 2
\* Most get_weather calls one process makes, when used as a library.
MaxCalls == 3
\* How far below 0 and above 99 the weather codes tried reach.
CodeMargin == 3

\* ------------------------------------------------------------ python values

Unbound == [kind |-> "unbound"]
JNull == [kind |-> "null"]
JStr(s) == [kind |-> "string", s |-> s]
\* A JSON number with at most one decimal: isfloat tells 18.0 from 18.
JNum(tenths, isfloat) == [kind |-> "number", tenths |-> tenths, isfloat |-> isfloat]
JInt(n) == JNum(10 * n, FALSE)
JArr(items) == [kind |-> "array", items |-> items]
JObj(fields) == [kind |-> "object", fields |-> fields]
NoFields == [k \in {} |-> JNull]

\* A response body: text that is no JSON document, or a JSON document.
NotJson == [json |-> FALSE]
JsonBody(v) == [json |-> TRUE, value |-> v]

Ok(v) == [ok |-> TRUE, val |-> v]
Raise(e) == [ok |-> FALSE, exc |-> e]

\* response.json(): the parsed document, or JSONDecodeError.
ResponseJson(body) ==
    IF body.json THEN Ok(body.value) ELSE Raise("JSONDecodeError")

\* bool(v), as `not location_data` uses it.
Truthy(v) ==
    CASE v.kind = "null" -> FALSE
      [] v.kind = "number" -> v.tenths # 0
      [] v.kind = "string" -> v.s # ""
      [] v.kind = "array" -> v.items # <<>>
      [] v.kind = "object" -> DOMAIN v.fields # {}

\* v[-1] in place of v[0]: the last element.
IndexLast(v) ==
    CASE v.kind = "array" ->
            IF Len(v.items) > 0 THEN Ok(v.items[Len(v.items)]) ELSE Raise("IndexError")
      [] v.kind = "object" -> Raise("KeyError")
      [] v.kind = "string" ->
            IF v.s # "" THEN Ok(v) ELSE Raise("IndexError")
      [] OTHER -> Raise("TypeError")

\* v[0]
Index0(v) ==
    CASE v.kind = "array" ->
            IF Len(v.items) > 0 THEN Ok(v.items[1]) ELSE Raise("IndexError")
      [] v.kind = "object" -> Raise("KeyError")
      [] v.kind = "string" ->
            IF v.s # "" THEN Ok(v) ELSE Raise("IndexError")
      [] OTHER -> Raise("TypeError")

\* v['key']
Item(v, key) ==
    CASE v.kind = "object" ->
            IF key \in DOMAIN v.fields THEN Ok(v.fields[key]) ELSE Raise("KeyError")
      [] OTHER -> Raise("TypeError")

\* 'key' in v
PyIn(key, v) ==
    CASE v.kind = "object" -> Ok(key \in DOMAIN v.fields)
      [] v.kind = "array" ->
            Ok(\E i \in 1..Len(v.items) : v.items[i] = JStr(key))
      [] OTHER -> Raise("TypeError")

\* ------------------------------------------------------------------- text

Digit(d) == <<"0", "1", "2", "3", "4", "5", "6", "7", "8", "9">>[d + 1]

RECURSIVE NatStr(_)
NatStr(n) == IF n < 10 THEN <<Digit(n)>> ELSE NatStr(n \div 10) \o <<Digit(n % 10)>>

Abs(n) == IF n < 0 THEN -n ELSE n

\* str(v) for the values an f-string field is given here.
PyStr(v) ==
    CASE v.kind = "string" -> IF v.s = "" THEN <<>> ELSE <<v.s>>
      [] v.kind = "null" -> <<"None">>
      [] v.kind = "number" ->
            (IF v.tenths < 0 THEN <<"-">> ELSE <<>>)
            \o NatStr(Abs(v.tenths) \div 10)
            \o (IF v.isfloat THEN <<".", Digit(Abs(v.tenths) % 10)>> ELSE <<>>)

\* The characters a city name is typed from: a lower-case letter, an
\* upper-case letter and a space.
Alphabet == {"a", "B", " "}
CasePairs == {<<"a", "A">>, <<"b", "B">>}
IsLower(c) == \E p \in CasePairs : p[1] = c
IsUpper(c) == \E p \in CasePairs : p[2] = c
IsCased(c) == IsLower(c) \/ IsUpper(c)
ToUpper(c) == IF IsLower(c) THEN (CHOOSE p \in CasePairs : p[1] = c)[2] ELSE c
ToLower(c) == IF IsUpper(c) THEN (CHOOSE p \in CasePairs : p[2] = c)[1] ELSE c

\* str.title(): a cased character is upper-cased when it follows an uncased
\* one (or starts the string) and lower-cased when it follows a cased one.
TitleChar(s, i) ==
    IF i > 1 /\ IsCased(s[i - 1]) THEN ToLower(s[i]) ELSE ToUpper(s[i])

Title(s) == [i \in 1..Len(s) |-> TitleChar(s, i)]

\* ---------------------------------------------------------------- program

VARIABLES
    pc,                   \* where the process is: "start", "geocode" and "weather"
                          \* (blocked in requests.get), "returned", "raised",
                          \* "described"
    exc,                  \* the exception leaving the call, "" when none
    city,                 \* get_weather's argument
    response,             \* the geocoding response body
    location_data,
    latitude,
    longitude,
    weather_response,     \* the forecast response body
    weather_data,
    temperature,
    weather_code,
    weather_description,
    weather_descriptions, \* the table, local to get_weather_description
    stdout,               \* every line printed by the process
    requests,             \* every HTTP request sent by the process
    calls,                \* get_weather calls begun
    out_mark,             \* Len(stdout) when the current call began
    req_mark,             \* Len(requests) when the current call began
    first_call            \* what the first call was given and did

vars == <<pc, exc, city, response, location_data, latitude, longitude,
          weather_response, weather_data, temperature, weather_code,
          weather_description, weather_descriptions, stdout, requests, calls,
          out_mark, req_mark, first_call>>

NoHeaders == [k \in {} |-> ""]

\* The dict literal of get_weather_description.
WeatherDescriptionTable ==
    (0 :> "Clear sky") @@ (1 :> "Mainly clear") @@ (2 :> "Partly cloudy")
    @@ (3 :> "Overcast") @@ (45 :> "Fog") @@ (48 :> "Depositing rime fog")
    @@ (51 :> "Drizzle: Light") @@ (53 :> "Drizzle: Moderate")
    @@ (55 :> "Drizzle: Dense intensity") @@ (56 :> "Freezing Drizzle: Light")
    @@ (57 :> "Freezing Drizzle: Dense intensity") @@ (61 :> "Rain: Slight")
    @@ (63 :> "Rain: Moderate") @@ (65 :> "Rain: Heavy intensity")
    @@ (66 :> "Freezing Rain: Light") @@ (67 :> "Freezing Rain: Heavy intensity")
    @@ (71 :> "Snow fall: Slight") @@ (73 :> "Snow fall: Moderate")
    @@ (75 :> "Snow fall: Heavy intensity") @@ (77 :> "Snow grains")
    @@ (80 :> "Rain showers: Slight") @@ (81 :> "Rain showers: Moderate")
    @@ (82 :> "Rain showers: Violent") @@ (85 :> "Snow showers: Slight")
    @@ (86 :> "Snow showers: Heavy") @@ (95 :> "Thunderstorm: Slight or moderate")
    @@ (96 :> "Thunderstorm with slight hail")
    @@ (99 :> "Thunderstorm with heavy hail")

\* The dict key a Python value hashes to: 2 and 2.0 are the same key; None,
\* a string and a number that is no integer are keys the table never holds.
IsIntKey(key) == key.kind = "number" /\ key.tenths % 10 = 0

\* d.setdefault(key, default) in place of d.get: a missing key is added.
DictSetdefault(d, key, default) ==
    CASE key.kind \in {"array", "object"} -> Raise("TypeError")
      [] IsIntKey(key) /\ (key.tenths \div 10) \in DOMAIN d ->
            [ok |-> TRUE, val |-> d[key.tenths \div 10], dict |-> d]
      [] IsIntKey(key) /\ (key.tenths \div 10) \notin DOMAIN d ->
            [ok |-> TRUE, val |-> default,
             dict |-> d @@ ((key.tenths \div 10) :> default)]
      [] OTHER -> [ok |-> TRUE, val |-> default, dict |-> d]

\* d.get(key, default): the value, and the dict afterwards (get leaves it
\* as it was).  A list or a dict is no key at all.
DictGet(d, key, default) ==
    CASE key.kind \in {"array", "object"} -> Raise("TypeError")
      [] IsIntKey(key) /\ (key.tenths \div 10) \in DOMAIN d ->
            [ok |-> TRUE, val |-> d[key.tenths \div 10], dict |-> d]
      [] OTHER -> [ok |-> TRUE, val |-> default, dict |-> d]

\* weather_descriptions[code] in place of .get: no fallback.
get_weather_description_subscript(code) ==
    IF IsIntKey(code) /\ (code.tenths \div 10) \in DOMAIN WeatherDescriptionTable
    THEN DictGet(WeatherDescriptionTable, code, "Unknown weather condition")
    ELSE Raise("KeyError")

get_weather_description(code) ==
    DictGet(WeatherDescriptionTable, code, "Unknown weather condition")

\* What requests.get came back with: nothing yet, a transport failure, or a
\* response with a body.
Pending == [json |-> FALSE, status |-> "pending"]
Failed == [json |-> FALSE, status |-> "failed"]
Received(body) == body @@ [status |-> "received"]

UserAgent == ("User-Agent" :> "WeatherApp (contact@example.com)")

\* requests.get(geocode_url, headers=headers)
GeocodeRequest(c) ==
    [url |-> <<"https://nominatim.openstreetmap.org/search?city=">> \o c
              \o <<"&format=json">>,
     headers |-> UserAgent]

\* requests.get(weather_url)
WeatherRequest(lat, lon) ==
    [url |-> <<"https://api.open-meteo.com/v1/forecast?latitude=">> \o PyStr(lat)
              \o <<"&longitude=">> \o PyStr(lon)
              \o <<"&current=temperature_2m,weathercode">>,
     headers |-> NoHeaders]

FetchErrorLine == <<"Error: Unable to fetch location data. Try again later.">>
\* The not-found message with city.title() in place of city.
NotFoundLineTitled(c) ==
    <<"Error: Unable to find location data for '">> \o Title(c)
    \o <<"'. Please check the city name.">>
NotFoundLine(c) ==
    <<"Error: Unable to find location data for '">> \o c
    \o <<"'. Please check the city name.">>
\* The no-data message without its f-string field.
UnavailableLineBare(c) == <<"Error: Unable to retrieve weather data.">>
UnavailableLine(c) ==
    <<"Error: Unable to retrieve weather data for '">> \o c \o <<"'.">>
\* The header with city in place of city.title().
HeaderLineRaw(c) == <<"Weather in ">> \o c \o <<":">>
HeaderLine(c) == <<"Weather in ">> \o Title(c) \o <<":">>
TemperatureLine(t) == <<"Temperature: ">> \o PyStr(t) \o <<"°C">>
ConditionLine(d) == <<"Condition: ", d>>

\* The locals and effects of get_weather from the geocoding response to the
\* forecast request, before any of it has run.
GeocodeFrame ==
    [pc |-> "raised", exc |-> "", location_data |-> Unbound,
     latitude |-> Unbound, longitude |-> Unbound, lines |-> <<>>, sent |-> <<>>]

\* response.json() outside any try: the decode error leaves get_weather.
GeocodeDecodeErrorUncaught == [GeocodeFrame EXCEPT !.exc = "JSONDecodeError"]

\* The except clause: print the fetch error and return.
OnGeocodeDecodeError ==
    [GeocodeFrame EXCEPT !.pc = "returned", !.lines = <<FetchErrorLine>>]

\* Lines 13 to 32: parse, check, take the first candidate's coordinates, send
\* the forecast request.
AfterGeocode(c, body) ==
    LET parsed == ResponseJson(body)
        f1 == [GeocodeFrame EXCEPT !.location_data = parsed.val]
        first == Index0(parsed.val)
        lat == Item(first.val, "lat")
        f2 == [f1 EXCEPT !.latitude = lat.val]
        lon == Item(first.val, "lon")
        f3 == [f2 EXCEPT !.longitude = lon.val]
    IN  IF ~parsed.ok THEN OnGeocodeDecodeError
        ELSE IF ~Truthy(parsed.val)
        THEN [f1 EXCEPT !.pc = "returned", !.lines = <<NotFoundLine(c)>>]
        ELSE IF ~first.ok THEN [f1 EXCEPT !.exc = first.exc]
        ELSE IF ~lat.ok THEN [f1 EXCEPT !.exc = lat.exc]
        ELSE IF ~lon.ok THEN [f2 EXCEPT !.exc = lon.exc]
        ELSE [f3 EXCEPT !.pc = "weather",
                        !.sent = <<WeatherRequest(lat.val, lon.val)>>]

\* current_weather.get(key) in place of current_weather[key]: None for a
\* missing key.
CurrentFieldGet(current_weather, key) ==
    CASE current_weather.kind = "object" ->
            IF key \in DOMAIN current_weather.fields
            THEN Ok(current_weather.fields[key]) ELSE Ok(JNull)
      [] OTHER -> Raise("AttributeError")

\* current_weather[key]
CurrentField(current_weather, key) == Item(current_weather, key)

\* The locals and effects of get_weather from the forecast response to its
\* end, before any of it has run.
WeatherFrame ==
    [pc |-> "raised", exc |-> "", weather_data |-> Unbound,
     temperature |-> Unbound, weather_code |-> Unbound,
     weather_description |-> Unbound, weather_descriptions |-> Unbound,
     lines |-> <<>>]

\* Lines 33 to 45: parse, check for "current", read the two fields, describe
\* the code, print the report.
AfterWeather(c, body) ==
    LET parsed == ResponseJson(body)
        f1 == [WeatherFrame EXCEPT !.weather_data = parsed.val]
        has == PyIn("current", parsed.val)
        current_weather == Item(parsed.val, "current")
        temp == CurrentField(current_weather.val, "temperature_2m")
        f2 == [f1 EXCEPT !.temperature = temp.val]
        code == CurrentField(current_weather.val, "weathercode")
        f3 == [f2 EXCEPT !.weather_code = code.val]
        desc == get_weather_description(code.val)
    IN  IF ~parsed.ok THEN [WeatherFrame EXCEPT !.exc = parsed.exc]
        ELSE IF ~has.ok THEN [f1 EXCEPT !.exc = has.exc]
        ELSE IF ~has.val
        THEN [f1 EXCEPT !.pc = "returned", !.lines = <<UnavailableLine(c)>>]
        ELSE IF ~current_weather.ok THEN [f1 EXCEPT !.exc = current_weather.exc]
        ELSE IF ~temp.ok THEN [f1 EXCEPT !.exc = temp.exc]
        ELSE IF ~code.ok THEN [f2 EXCEPT !.exc = code.exc]
        ELSE IF ~desc.ok
        THEN [f3 EXCEPT !.exc = desc.exc,
                        !.weather_descriptions = WeatherDescriptionTable]
        ELSE [f3 EXCEPT !.pc = "returned",
                        !.weather_description = JStr(desc.val),
                        !.weather_descriptions = desc.dict,
                        !.lines = <<HeaderLine(c), TemperatureLine(temp.val),
                                    ConditionLine(desc.val)>>]

\* ------------------------------------------------------------ environment

RECURSIVE SeqsUpTo(_, _)
SeqsUpTo(S, n) ==
    IF n = 0 THEN {<<>>}
    ELSE LET shorter == SeqsUpTo(S, n - 1)
         IN  shorter \cup {Append(q, x) : q \in shorter, x \in S}

\* What the user may type at the prompt.
Cities == SeqsUpTo(Alphabet, MaxCityLen)

Place(lat, lon) == JObj([lat |-> JStr(lat), lon |-> JStr(lon)])
Berlin == Place("52.52", "13.41")
Paris == Place("48.85", "2.35")

\* Elements of a geocoding array: two places, and three that are no place.
Candidates ==
    {Berlin, Paris, JObj(NoFields), JObj([lat |-> JStr("52.52")]), JNull}

\* Geocoding bodies: no JSON, falsy documents, documents that are no array,
\* and arrays of up to MaxCandidates candidates.
GeocodeBodies ==
    {NotJson, JsonBody(JNull), JsonBody(JObj(NoFields)),
     JsonBody(JObj([error |-> JStr("Unable to geocode")])), JsonBody(JInt(429))}
    \cup {JsonBody(JArr(q)) : q \in SeqsUpTo(Candidates, MaxCandidates)}

Temperatures == {JNum(183, TRUE), JNum(-5, TRUE), JInt(20)}
SampleCodes == {0, 2, 99, 4, -1}

Current(fields) == JObj([current |-> JObj(fields)])

\* Forecast bodies: no JSON, documents that are no object, objects with no
\* "current", with a "current" that lacks a field, and full ones.
WeatherBodies ==
    {NotJson, JsonBody(JNull), JsonBody(JArr(<<>>)), JsonBody(JObj(NoFields)),
     JsonBody(JObj([error |-> JStr("true"), reason |-> JStr("Bad latitude")])),
     JsonBody(JObj([current |-> JNull])),
     JsonBody(Current(NoFields)),
     JsonBody(Current([temperature_2m |-> JNum(183, TRUE)])),
     JsonBody(Current([weathercode |-> JInt(2)]))}
    \cup {JsonBody(Current([temperature_2m |-> t, weathercode |-> JInt(c)])) :
            t \in Temperatures, c \in SampleCodes}

\* The smaller world of a process that calls get_weather again and again.
FewCities == {<<"a">>, <<"B", " ">>}
FewGeocodeBodies ==
    {NotJson, JsonBody(JArr(<<>>)), JsonBody(JArr(<<Berlin>>)),
     JsonBody(JArr(<<Berlin, Paris>>)), JsonBody(JArr(<<Paris, Berlin>>))}
FewWeatherBodies ==
    {NotJson, JsonBody(JObj(NoFields)),
     JsonBody(Current([temperature_2m |-> JNum(183, TRUE), weathercode |-> JInt(2)])),
     JsonBody(Current([temperature_2m |-> JInt(20), weathercode |-> JInt(4)]))}

\* The codes get_weather_description is tried on.
Codes == (0 - CodeMargin)..(99 + CodeMargin) \cup {9999}

\* ---------------------------------------------------------------- actions

Done == pc \in {"returned", "raised"}

NoCall == [made |-> FALSE]

\* The lines the current call has printed and the requests it has sent.
Printed == SubSeq(stdout, out_mark + 1, Len(stdout))
Sent == SubSeq(requests, req_mark + 1, Len(requests))

\* What a finished call was given and what it did.
Summary ==
    [made |-> TRUE, city |-> city, response |-> response,
     weather_response |-> weather_response, pc |-> pc, exc |-> exc,
     printed |-> Printed, sent |-> Sent]

Init ==
    /\ pc = "start"
    /\ exc = ""
    /\ city = <<>>
    /\ response = Pending
    /\ weather_response = Pending
    /\ location_data = Unbound
    /\ latitude = Unbound
    /\ longitude = Unbound
    /\ weather_data = Unbound
    /\ temperature = Unbound
    /\ weather_code = Unbound
    /\ weather_description = Unbound
    /\ weather_descriptions = Unbound
    /\ stdout = <<>>
    /\ requests = <<>>
    /\ calls = 0
    /\ out_mark = 0
    /\ req_mark = 0
    /\ first_call = NoCall

\* The history of the first call, written when it ends.
Record == first_call' = IF calls' = 1 /\ Done' THEN Summary' ELSE first_call

\* get_weather(c) up to its first requests.get: a new frame, the geocoding
\* request sent.
Invoke(c) ==
    /\ city' = c
    /\ exc' = ""
    /\ response' = Pending
    /\ weather_response' = Pending
    /\ location_data' = Unbound
    /\ latitude' = Unbound
    /\ longitude' = Unbound
    /\ weather_data' = Unbound
    /\ temperature' = Unbound
    /\ weather_code' = Unbound
    /\ weather_description' = Unbound
    /\ weather_descriptions' = Unbound
    /\ out_mark' = Len(stdout)
    /\ req_mark' = Len(requests)
    /\ requests' = Append(requests, GeocodeRequest(c))
    /\ calls' = calls + 1
    /\ pc' = "geocode"
    /\ UNCHANGED <<stdout, first_call>>

\* The program: read a city name, call get_weather once.
Main ==
    /\ pc = "start"
    /\ \E c \in Cities : Invoke(c)

\* A caller that uses get_weather as a library calls it again after it has
\* returned or raised.
Call ==
    /\ pc = "start" \/ Done
    /\ calls < MaxCalls
    /\ \E c \in FewCities : Invoke(c)

\* A retry in place of the propagating exception: the request is sent again.
GeocodeFailsRetry ==
    /\ pc = "geocode"
    /\ requests' = Append(requests, GeocodeRequest(city))
    /\ UNCHANGED <<pc, exc, city, response, location_data, latitude, longitude,
                   weather_response, weather_data, temperature, weather_code,
                   weather_description, weather_descriptions, stdout, calls,
                   out_mark, req_mark, first_call>>

\* The geocoding requests.get raises: nothing in get_weather catches it.
GeocodeFails ==
    /\ pc = "geocode"
    /\ response' = Failed
    /\ pc' = "raised"
    /\ exc' = "ConnectionError"
    /\ UNCHANGED <<city, location_data, latitude, longitude, weather_response,
                   weather_data, temperature, weather_code, weather_description,
                   weather_descriptions, stdout, requests, calls, out_mark,
                   req_mark>>
    /\ Record

GeocodeGot(body) ==
    LET f == AfterGeocode(city, body)
    IN  /\ pc = "geocode"
        /\ response' = Received(body)
        /\ pc' = f.pc
        /\ exc' = f.exc
        /\ location_data' = f.location_data
        /\ latitude' = f.latitude
        /\ longitude' = f.longitude
        /\ stdout' = stdout \o f.lines
        /\ requests' = requests \o f.sent
        /\ UNCHANGED <<city, weather_response, weather_data, temperature,
                       weather_code, weather_description, weather_descriptions,
                       calls, out_mark, req_mark>>
        /\ Record

GeocodeResponds == \E body \in GeocodeBodies : GeocodeGot(body)
FewGeocodeResponds == \E body \in FewGeocodeBodies : GeocodeGot(body)

\* The forecast requests.get raises.
WeatherFails ==
    /\ pc = "weather"
    /\ weather_response' = Failed
    /\ pc' = "raised"
    /\ exc' = "ConnectionError"
    /\ UNCHANGED <<city, response, location_data, latitude, longitude,
                   weather_data, temperature, weather_code, weather_description,
                   weather_descriptions, stdout, requests, calls, out_mark,
                   req_mark>>
    /\ Record

WeatherGot(body) ==
    LET f == AfterWeather(city, body)
    IN  /\ pc = "weather"
        /\ weather_response' = Received(body)
        /\ pc' = f.pc
        /\ exc' = f.exc
        /\ weather_data' = f.weather_data
        /\ temperature' = f.temperature
        /\ weather_code' = f.weather_code
        /\ weather_description' = f.weather_description
        /\ weather_descriptions' = f.weather_descriptions
        /\ stdout' = stdout \o f.lines
        /\ UNCHANGED <<city, response, location_data, latitude, longitude,
                       requests, calls, out_mark, req_mark>>
        /\ Record

WeatherResponds == \E body \in WeatherBodies : WeatherGot(body)
FewWeatherResponds == \E body \in FewWeatherBodies : WeatherGot(body)

\* get_weather_description(code) called on its own.
Describe ==
    /\ pc = "start"
    /\ \E n \in Codes :
        LET r == get_weather_description(JInt(n))
        IN  /\ weather_code' = JInt(n)
            /\ pc' = IF r.ok THEN "described" ELSE "raised"
            /\ exc' = IF r.ok THEN "" ELSE r.exc
            /\ weather_description' = IF r.ok THEN JStr(r.val) ELSE Unbound
            /\ weather_descriptions' = IF r.ok THEN r.dict ELSE WeatherDescriptionTable
    /\ UNCHANGED <<city, response, location_data, latitude, longitude,
                   weather_response, weather_data, temperature, stdout, requests,
                   calls, out_mark, req_mark, first_call>>

Next == Main \/ GeocodeFails \/ GeocodeResponds \/ WeatherFails \/ WeatherResponds

Spec == Init /\ [][Next]_vars

NextCalls ==
    Call \/ GeocodeFails \/ FewGeocodeResponds \/ WeatherFails \/ FewWeatherResponds

SpecCalls == Init /\ [][NextCalls]_vars

NextDescribe == Describe

SpecDescribe == Init /\ [][NextDescribe]_vars

\* ------------------------------------------------------------- properties

GeocodeUrlHead == "https://nominatim.openstreetmap.org/search?city="
WeatherUrlHead == "https://api.open-meteo.com/v1/forecast?latitude="
IsGeocodeRequest(r) == r.url[1] = GeocodeUrlHead
IsWeatherRequest(r) == r.url[1] = WeatherUrlHead
WeatherRequested == \E i \in 1..Len(Sent) : IsWeatherRequest(Sent[i])

\* line holds text as a run of consecutive pieces.
Contains(line, text) ==
    \E i \in 0..(Len(line) - Len(text)) : SubSeq(line, i + 1, i + Len(text)) = text

ReportHeads == {"Weather in ", "Temperature: ", "Condition: "}
NoReportLine == \A i \in 1..Len(Printed) : Printed[i][1] \notin ReportHeads

GeocodeParsed == response.status = "received" /\ response.json
WeatherParsed == weather_response.status = "received" /\ weather_response.json

\* C1: whatever the two services answer, get_weather ends by returning, never
\* by an exception, and every call that has ended has printed at least one line.
C1_EveryFailureHandled ==
    /\ pc # "raised"
    /\ Done => Len(Printed) >= 1

\* C2: when the geocoding result is an empty array, the call prints exactly one
\* line, the not-found message holding the city as typed, returns, and sends
\* no forecast request.
C2_EmptyResultNotFound ==
    (Done /\ GeocodeParsed /\ response.value = JArr(<<>>)) =>
        /\ pc = "returned"
        /\ exc = ""
        /\ Printed = << <<"Error: Unable to find location data for '">> \o city
                        \o <<"'. Please check the city name.">> >>
        /\ Contains(Printed[1], city)
        /\ ~WeatherRequested
        /\ Len(Sent) = 1

C2_Witness ==
    /\ pc = "returned"
    /\ GeocodeParsed
    /\ response.value = JArr(<<>>)
    /\ city = <<"a", "B">>
    /\ Len(Printed) = 1

\* C3: when the geocoding body is no JSON, the call prints exactly one line,
\* the fetch error, returns without an exception, and sends no forecast
\* request.
C3_BadGeocodeBodyHandled ==
    (Done /\ response.status = "received" /\ ~response.json) =>
        /\ pc = "returned"
        /\ exc = ""
        /\ Printed = << <<"Error: Unable to fetch location data. Try again later.">> >>
        /\ ~WeatherRequested
        /\ Len(Sent) = 1

C3_Witness ==
    /\ pc = "returned"
    /\ response = Received(NotJson)
    /\ Len(Printed) = 1
    /\ Len(city) > 0

NoCurrentField ==
    /\ WeatherParsed
    /\ weather_response.value.kind \in {"object", "array"}
    /\ ~PyIn("current", weather_response.value).val

FullReport ==
    /\ WeatherParsed
    /\ weather_response.value.kind = "object"
    /\ "current" \in DOMAIN weather_response.value.fields
    /\ weather_response.value.fields["current"].kind = "object"
    /\ {"temperature_2m", "weathercode"}
         \subseteq DOMAIN weather_response.value.fields["current"].fields

ReportedTemperature == weather_response.value.fields["current"].fields["temperature_2m"]
ReportedCode == weather_response.value.fields["current"].fields["weathercode"]

\* t is s in title case: the same letters, a letter upper-case exactly when
\* no letter comes right before it.
IsTitleOf(t, s) ==
    /\ Len(t) = Len(s)
    /\ \A i \in 1..Len(s) :
        /\ ToLower(t[i]) = ToLower(s[i])
        /\ IsCased(s[i]) =>
             IF i = 1 \/ ~IsCased(s[i - 1]) THEN IsUpper(t[i]) ELSE IsLower(t[i])

TemperatureText(t) ==
    CASE t = JNum(183, TRUE) -> <<"1", "8", ".", "3">>
      [] t = JNum(-5, TRUE) -> <<"-", "0", ".", "5">>
      [] t = JInt(20) -> <<"2", "0">>

\* C5: when the forecast document holds "current" with temperature_2m = t and
\* weathercode = c, the geocoding result was a non-empty array and the call
\* prints exactly three lines: "Weather in <city in title case>:",
\* "Temperature: <t>°C" and "Condition: <get_weather_description(c)>"; the
\* header's city is in title case whatever the case of the city typed.
C5_ReportIsThreeLines ==
    (Done /\ FullReport) =>
        /\ pc = "returned"
        /\ exc = ""
        /\ GeocodeParsed
        /\ response.value.kind = "array"
        /\ response.value.items # <<>>
        /\ Len(Printed) = 3
        /\ Len(Printed[1]) = Len(city) + 2
        /\ Printed[1][1] = "Weather in "
        /\ IsTitleOf(SubSeq(Printed[1], 2, Len(city) + 1), city)
        /\ Printed[1][Len(city) + 2] = ":"
        /\ (city = <<"a", "B", " ">> => Printed[1] = <<"Weather in ", "A", "b", " ", ":">>)
        /\ (city = <<"B", " ", "a">> => Printed[1] = <<"Weather in ", "B", " ", "A", ":">>)
        /\ Printed[2] = <<"Temperature: ">> \o TemperatureText(ReportedTemperature)
                        \o <<"°C">>
        /\ Printed[3] = <<"Condition: ", get_weather_description(ReportedCode).val>>
        /\ (ReportedCode = JInt(2) => Printed[3] = <<"Condition: ", "Partly cloudy">>)

C5_Witness ==
    /\ pc = "returned"
    /\ FullReport
    /\ city = <<"a", "B", " ">>
    /\ location_data = JArr(<<Berlin>>)
    /\ ReportedTemperature = JNum(183, TRUE)
    /\ ReportedCode = JInt(2)
    /\ Len(Printed) = 3

KnownDescriptions ==
    {<<0, "Clear sky">>, <<1, "Mainly clear">>, <<2, "Partly cloudy">>,
     <<3, "Overcast">>, <<45, "Fog">>, <<48, "Depositing rime fog">>,
     <<51, "Drizzle: Light">>, <<53, "Drizzle: Moderate">>,
     <<55, "Drizzle: Dense intensity">>, <<56, "Freezing Drizzle: Light">>,
     <<57, "Freezing Drizzle: Dense intensity">>, <<61, "Rain: Slight">>,
     <<63, "Rain: Moderate">>, <<65, "Rain: Heavy intensity">>,
     <<66, "Freezing Rain: Light">>, <<67, "Freezing Rain: Heavy intensity">>,
     <<71, "Snow fall: Slight">>, <<73, "Snow fall: Moderate">>,
     <<75, "Snow fall: Heavy intensity">>, <<77, "Snow grains">>,
     <<80, "Rain showers: Slight">>, <<81, "Rain showers: Moderate">>,
     <<82, "Rain showers: Violent">>, <<85, "Snow showers: Slight">>,
     <<86, "Snow showers: Heavy">>, <<95, "Thunderstorm: Slight or moderate">>,
     <<96, "Thunderstorm with slight hail">>, <<99, "Thunderstorm with heavy hail">>}
KnownCodes == {p[1] : p \in KnownDescriptions}

\* C6: get_weather_description maps each of the 28 codes of the table to its
\* text and every other integer, negative ones too, to "Unknown weather
\* condition", and never raises.
C6_DescriptionTotal ==
    /\ pc # "raised"
    /\ Cardinality(KnownCodes) = 28
    /\ pc = "described" =>
         LET n == weather_code.tenths \div 10
         IN  /\ weather_code = JInt(n)
             /\ IF n \in KnownCodes
                THEN \E p \in KnownDescriptions :
                        p[1] = n /\ weather_description = JStr(p[2])
                ELSE weather_description = JStr("Unknown weather condition")

C6_Witness ==
    /\ pc = "described"
    /\ weather_code = JInt(-1)
    /\ weather_description = JStr("Unknown weather condition")

\* C7: in every call the forecast request is sent only after the geocoding
\* response has come and given coordinates, and each service is asked at most
\* once: exactly one geocoding request, at most one forecast request, nothing
\* sent again after a failure.
C7_OneRequestEachInOrder ==
    /\ Len(Sent) <= 2
    /\ calls > 0 => (Len(Sent) >= 1 /\ IsGeocodeRequest(Sent[1]))
    /\ \A i \in 2..Len(Sent) : IsWeatherRequest(Sent[i])
    /\ WeatherRequested =>
         /\ GeocodeParsed
         /\ latitude.kind # "unbound"
         /\ longitude.kind # "unbound"
    /\ pc = "geocode" => Len(Sent) = 1
    /\ pc = "weather" => Len(Sent) = 2
    /\ (Done /\ exc # "") => Len(Sent) = (IF weather_response.status = "pending" THEN 1 ELSE 2)

C7_Witness ==
    /\ pc = "raised"
    /\ exc = "JSONDecodeError"
    /\ Len(Sent) = 2
    /\ IsGeocodeRequest(Sent[1])
    /\ IsWeatherRequest(Sent[2])

CurrentLacksField ==
    /\ WeatherParsed
    /\ weather_response.value.kind = "object"
    /\ "current" \in DOMAIN weather_response.value.fields
    /\ weather_response.value.fields["current"].kind = "object"
    /\ ~({"temperature_2m", "weathercode"}
           \subseteq DOMAIN weather_response.value.fields["current"].fields)

\* C8: when the forecast document's "current" is an object without
\* temperature_2m or without weathercode, the call ends with a KeyError and
\* has printed nothing.
C8_MissingFieldIsKeyError ==
    (Done /\ CurrentLacksField) =>
        /\ pc = "raised"
        /\ exc = "KeyError"
        /\ Printed = <<>>

C8_Witness ==
    /\ pc = "raised"
    /\ CurrentLacksField
    /\ temperature = JNum(183, TRUE)
    /\ weather_code = Unbound
    /\ Printed = <<>>

CoordinateTexts == {"52.52", "13.41", "48.85", "2.35"}

IsCandidates(r) ==
    /\ r.status = "received"
    /\ r.json
    /\ r.value.kind = "array"
    /\ r.value.items # <<>>

SameFirstCandidate ==
    /\ first_call.made
    /\ calls > 1
    /\ Done
    /\ city = first_call.city
    /\ IsCandidates(response)
    /\ IsCandidates(first_call.response)
    /\ response.value.items[1] = first_call.response.value.items[1]
    /\ weather_response = first_call.weather_response

\* C9: a forecast request carries the lat and lon of the first element of the
\* geocoding result, as they came; later candidates reach neither the request
\* nor the output: no printed line holds a coordinate, and a call whose city,
\* first candidate and forecast response are those of the first call sends and
\* prints what the first call did, whatever candidates follow the first.
C9_FirstCandidateOnly ==
    /\ \A i \in 1..Len(Sent) :
         IsWeatherRequest(Sent[i]) =>
            LET first == response.value.items[1]
            IN  /\ Sent[i].url = <<WeatherUrlHead, first.fields["lat"].s, "&longitude=",
                                   first.fields["lon"].s,
                                   "&current=temperature_2m,weathercode">>
                /\ latitude = first.fields["lat"]
                /\ longitude = first.fields["lon"]
    /\ \A i \in 1..Len(Printed) : \A j \in 1..Len(Printed[i]) :
         Printed[i][j] \notin CoordinateTexts
    /\ SameFirstCandidate =>
         /\ pc = first_call.pc
         /\ exc = first_call.exc
         /\ Printed = first_call.printed
         /\ Sent = first_call.sent

C9_Witness ==
    /\ SameFirstCandidate
    /\ pc = "returned"
    /\ first_call.response.value.items = <<Berlin>>
    /\ location_data = JArr(<<Berlin, Paris>>)
    /\ Sent[2].url = <<WeatherUrlHead, "52.52", "&longitude=", "13.41",
                       "&current=temperature_2m,weathercode">>
    /\ Len(Printed) = 3

SameAsFirstCall ==
    /\ first_call.made
    /\ calls > 1
    /\ Done
    /\ city = first_call.city
    /\ response = first_call.response
    /\ weather_response = first_call.weather_response

\* C10: calls do not depend on earlier calls: a call given the city and the
\* responses the first call was given sends the same requests, prints the same
\* lines and ends the same way; and the table, whenever it exists, holds the
\* same 28 entries.
C10_CallsIndependent ==
    /\ \/ weather_descriptions = Unbound
       \/ /\ DOMAIN weather_descriptions = KnownCodes
          /\ \A p \in KnownDescriptions : weather_descriptions[p[1]] = p[2]
    /\ SameAsFirstCall =>
         /\ pc = first_call.pc
         /\ exc = first_call.exc
         /\ Printed = first_call.printed
         /\ Sent = first_call.sent

C10_Witness ==
    /\ SameAsFirstCall
    /\ calls = 3
    /\ Len(Printed) = 3
    /\ ReportedCode = JInt(4)
    /\ Len(stdout) = 7
    /\ Len(requests) = 5

====
